---- MODULE Spec2Model ----
(***************************************************************************)
(* State-machine model of the simulator world controllers of the           *)
(* repository: the iCubSim WorldController (iCubSim_world_controller.py)   *)
(* with its handle tables and per-category counters, and the gazebo        *)
(* WorldController (gazebo_world_controller.py).  Every public method is   *)
(* one action; the response bottle each RPC round trip receives is an      *)
(* input chosen by the environment.                                        *)
(***************************************************************************)
EXTENDS Integers, Sequences, FiniteSets, TLC

VARIABLES
    rpc_client,         \* iCubSim: attribute self._rpc_client ("open" | "deleted"; "absent": not constructed)
    sim_ids_counters,   \* iCubSim: self._sim_ids_counters (defaultdict, keys present only)
    sim_mids_counters,  \* iCubSim: self._sim_mids_counters
    objects,            \* iCubSim: self._objects, list of <<category, simulator id>>
    models,             \* iCubSim: self._models
    screen_on,          \* iCubSim: self._screen_on
    gz_rpc_client,      \* gazebo: attribute self._rpc_client
    last,               \* the last call: operation, handle argument, response, channel events, result
    created_objs,       \* history: successful create_object calls since the last successful del_all
    created_mods,       \* history: successful create_model calls since the last successful del_all
    cleared,            \* history: a successful del_all has emptied a table that held entries
    world_objs,         \* simulator: number of objects it holds, per category
    world_mods,         \* simulator: number of models it holds, per category
    reply_lost,         \* history: a reply to a command the simulator executed was not delivered
    built,              \* iCubSim: how far __init__ got before it returned or raised
    channels,           \* environment: which auxiliary ports opened and connected during __init__
    np_img,             \* iCubSim: frame held by the array self._scene_cam['np_img'] (0: the ones of __init__)
    y_external,         \* iCubSim: self._scene_cam['y_img'] still uses np_img as its buffer
    pc,                 \* caller: where it stands in _execute ("idle": not in a call)
    call,               \* caller: the method it is in and the command that method built
    wire,               \* RPC port: commands written and not yet answered
    answer,             \* RPC port: the answer bottle of _execute and the command it answers
    closes,             \* per port, the number of close() calls made on it so far
    group,              \* a ModelGroup: its _mod_list and what its last method did
    threads,            \* two callers of create_object: where each stands and what it holds
    motor               \* a caller of YARP_motor_control: the function it is in and its locals

vars == <<rpc_client, sim_ids_counters, sim_mids_counters, objects, models, screen_on,
          gz_rpc_client, last, created_objs, created_mods, cleared, world_objs, world_mods, reply_lost,
          built, channels, np_img, y_external, pc, call, wire, answer,
          closes, group, threads, motor>>

ctrl == <<sim_ids_counters, sim_mids_counters, objects, models>>
hist == <<created_objs, created_mods, cleared>>
world == <<world_objs, world_mods, reply_lost>>
icub == <<rpc_client, screen_on>>
life == <<built, channels>>
cam == <<np_img, y_external>>
rpc == <<pc, call, wire, answer>>
aux == <<group, threads, motor>>
ext == <<closes, aux>>

----------------------------------------------------------------------------
(* Bounds *)

MaxCreated == 2      \* entries the two handle tables hold together
MaxHandle == 2       \* handle arguments range over -MaxHandle .. MaxHandle
MaxFrame == 2        \* distinct frames the scene camera delivers
MaxGroup == 2        \* models in the model_list of a ModelGroup
MaxModels == 3       \* entries of the model table under ModelGroup calls
MaxPolls == 3        \* checkMotionDone calls counted within one blocking move

(* Program constant *)
VOCAB_OK == 27503

(* Inputs *)
ObjCats == {"box", "ssph"}
ModelCats == {"model", "smodel"}
Hands == {"lhand", "rhand"}
Handles == (0 - MaxHandle) .. MaxHandle
Atoms == {VOCAB_OK, 0}
PayloadLens == {3, 4, 6, 7}

ConstBottle(n, a) == [i \in 1..n |-> a]

\* response bottles: empty, every single atom, two atoms led by [ok], and
\* payloads of the lengths the queries expect and one more
Responses ==
    {<<>>} \cup {<<a>> : a \in Atoms} \cup {<<VOCAB_OK, 0>>}
    \cup {ConstBottle(n, 1) : n \in PayloadLens}

----------------------------------------------------------------------------
(* Bottles: a command atom is a typed value *)

Str(s) == [t |-> "string", s |-> s, n |-> 0]
F64(x) == [t |-> "float64", s |-> "", n |-> x]
I32(i) == [t |-> "int32", s |-> "", n |-> i]

Strings(seq) == [i \in 1..Len(seq) |-> Str(seq[i])]
Floats(seq) == [i \in 1..Len(seq) |-> F64(seq[i])]

\* channel events of one call
Write(port, cmd) == [ev |-> "write", port |-> port, cmd |-> cmd]
Close(port) == [ev |-> "close", port |-> port, cmd |-> <<>>]

\* results of one call
RetInt(i) == [kind |-> "int", int |-> i, bool |-> FALSE, seq |-> <<>>, str |-> "", exc |-> ""]
RetBool(b) == [kind |-> "bool", int |-> 0, bool |-> b, seq |-> <<>>, str |-> "", exc |-> ""]
RetValue(s) == [kind |-> "value", int |-> 0, bool |-> FALSE, seq |-> s, str |-> "", exc |-> ""]
RetStr(s) == [kind |-> "str", int |-> 0, bool |-> FALSE, seq |-> <<>>, str |-> s, exc |-> ""]
RetNone == [kind |-> "none", int |-> 0, bool |-> FALSE, seq |-> <<>>, str |-> "", exc |-> ""]
Raise(e) == [kind |-> "raise", int |-> 0, bool |-> FALSE, seq |-> <<>>, str |-> "", exc |-> e]

\* the arguments of a create_object call: the category, the size and the
\* collision flag, which is empty when the caller left it out
CreateArgs(obj, size, given) == [obj |-> obj, size |-> size, collision |-> given]
NoArgs == CreateArgs("", <<>>, <<>>)

Call(op, h, resp, events, ret) ==
    [op |-> op, h |-> h, resp |-> resp, events |-> events, ret |-> ret, args |-> NoArgs]

\* slip: the lookup always finds the default
Counter_Stuck(d, k) == 0

\* defaultdict(lambda: 0) lookup
Counter(d, k) == IF k \in DOMAIN d THEN d[k] ELSE 0

\* slip: the counter advanced by two
Increment_Twice(d, k) == [x \in DOMAIN d \cup {k} |-> IF x = k THEN Counter(d, k) + 2 ELSE d[x]]

\* d[k] += 1 on a defaultdict
Increment(d, k) == [x \in DOMAIN d \cup {k} |-> IF x = k THEN Counter(d, k) + 1 ELSE d[x]]

EmptyDict == [x \in {} |-> 0]

\* Python list indexing: -len .. len-1 are valid subscripts
InRange(list, i) == (0 - Len(list)) <= i /\ i < Len(list)

\* slip: the subscript is ignored and the first entry taken
Item_First(list, i) == list[1]

Item(list, i) == IF i >= 0 THEN list[i + 1] ELSE list[Len(list) + i + 1]

----------------------------------------------------------------------------
(* WorldController._is_success *)

asVocab32(atom) == atom

\* slip: only the first atom is looked at
_is_success_FirstAtom(ans) == Len(ans) >= 1 /\ asVocab32(ans[1]) = VOCAB_OK

_is_success(ans) == Len(ans) = 1 /\ asVocab32(ans[1]) = VOCAB_OK

----------------------------------------------------------------------------
(* Environment: the RPC transport and the simulator behind it *)

\* _execute: the answer bottle starts empty and rpc_client.write fills it; its
\* status is discarded, so a failed round trip hands back the empty bottle
Deliver(reply) == {reply, <<>>}

\* the simulator executes a command exactly when it answers [ok]
Executed(reply) == reply = <<VOCAB_OK>>

\* the simulator numbers the things of one category 1, 2, ... in creation order
WorldMk(held, cat, reply) ==
    IF Executed(reply) THEN [held EXCEPT ![cat] = @ + 1] ELSE held

WorldDelAll(held, reply) ==
    IF Executed(reply) THEN [c \in DOMAIN held |-> 0] ELSE held

Lost(reply, resp) == Executed(reply) /\ resp # reply

----------------------------------------------------------------------------
(* iCubSim WorldController: command bottles *)

Location == <<2, 3, 4>>
Color == <<1, 0, 0>>
Sizes == {<<1>>, <<1, 2, 3>>}
Collisions == {0}
Paths == {"dir"}

\* slip: the location is added before the size
_prepare_create_obj_command_LocationFirst(obj, size, location, color, collision) ==
    Strings(<<"world", "mk", obj>>) \o Floats(location) \o Floats(size)
        \o Floats(color) \o <<I32(collision)>>

_prepare_create_obj_command(obj, size, location, color, collision) ==
    Strings(<<"world", "mk", obj>>) \o Floats(size) \o Floats(location)
        \o Floats(color) \o <<I32(collision)>>

_prepare_move_command_obj(obj, obj_id, location) ==
    Strings(<<"world", "set", obj>>) \o <<I32(obj_id)>> \o Floats(location)

_prepare_get_pos_command_obj(obj, obj_id) ==
    Strings(<<"world", "get", obj>>) \o <<I32(obj_id)>>

_prepare_rot_command_obj(obj, obj_id, orientation) ==
    Strings(<<"world", "rot", obj>>) \o <<I32(obj_id)>> \o Floats(orientation)

_prepare_get_rot_command_obj(obj, obj_id) ==
    Strings(<<"world", "rot", obj>>) \o <<I32(obj_id)>>

_prepare_create_command_model(m_type, model, texture, location) ==
    Strings(<<"world", "mk", m_type, model, texture>>) \o Floats(location)

_prepare_move_command_model(m_type, mod_id, location) ==
    Strings(<<"world", "set", m_type>>) \o <<I32(mod_id)>> \o Floats(location)

_prepare_get_pos_command_model(m_type, mod_id) ==
    Strings(<<"world", "get", m_type>>) \o <<I32(mod_id)>>

_prepare_rot_command_model(m_type, mod_id, orientation) ==
    Strings(<<"world", "rot", m_type>>) \o <<I32(mod_id)>> \o Floats(orientation)

_prepare_get_rot_command_model(m_type, mod_id) ==
    Strings(<<"world", "rot", m_type>>) \o <<I32(mod_id)>>

_prepare_get_path_command_model == Strings(<<"world", "get", "mdir">>)

_prepare_set_path_command_model(path) == Strings(<<"world", "set", "mdir", path>>)

\* slip: the leading "world" is left out
_prepare_get_command_hand_NoWorld(hand) == Strings(<<"get", hand>>)

_prepare_get_command_hand(hand) == Strings(<<"world", "get", hand>>)

_prepare_get_command_screen == Strings(<<"world", "get", "screen">>)

_prepare_set_command_screen(location) ==
    Strings(<<"world", "set", "screen">>) \o Floats(location)

_prepare_del_all_command == Strings(<<"world", "del", "all">>)

----------------------------------------------------------------------------
(* iCubSim WorldController: pieces shared by the methods *)

\* slip: IDs counted from 0
NextSimId_FromZero(counters, cat) == Counter(counters, cat)

\* obj_sim_id = self._sim_ids_counters[obj] + 1
NextSimId(counters, cat) == Counter(counters, cat) + 1

\* slip: the entry inserted at the head of the table
AppendEntry_AtFront(table, entry) == <<entry>> \o table

\* self._objects.append((obj, obj_sim_id))
AppendEntry(table, entry) == Append(table, entry)

\* slip: the length itself is returned
NewHandle_Length(table) == Len(table)

\* return len(self._objects) - 1
NewHandle(table) == Len(table) - 1

\* print(...); return -1
CreationFailed == RetInt(-1)

\* slip: an empty answer raises instead of reporting failure
Succeeded_Raising(resp) ==
    IF Len(resp) = 0 THEN Raise("IndexError") ELSE RetBool(_is_success(resp))

\* return self._is_success(self._execute(...))
Succeeded(resp) == RetBool(_is_success(resp))

\* slip: a longer answer is accepted and truncated
Decoded_AtLeast(result, n) ==
    IF Len(result) >= n THEN RetValue(SubSeq(result, 1, n)) ELSE RetNone

\* if result.size() == n: return [result.get(i) for i in range(n)]; return None
Decoded(result, n) ==
    IF Len(result) = n THEN RetValue(SubSeq(result, 1, n)) ELSE RetNone

\* slip: the counters survive the reset
ClearedDict_Kept(d) == d

\* self._sim_ids_counters.clear()
ClearedDict(d) == EmptyDict

\* slip: the table survives the reset
ClearedList_Kept(list) == list

\* del self._objects[:]
ClearedList(list) == <<>>

\* slip: a closed controller still sends
HandleCall_StillSends(op, table, h, resp, cmd, ret) ==
    IF ~InRange(table, h) THEN Call(op, h, <<>>, <<>>, Raise("IndexError"))
    ELSE Call(op, h, resp, <<Write("rpc", cmd)>>, ret)

\* a method that subscripts a table with the caller's handle and then makes
\* one round trip; without the attribute _rpc_client the round trip raises
HandleCall(op, table, h, resp, cmd, ret) ==
    IF ~InRange(table, h) THEN Call(op, h, <<>>, <<>>, Raise("IndexError"))
    ELSE IF rpc_client # "open" THEN Call(op, h, <<>>, <<>>, Raise("AttributeError"))
    ELSE Call(op, h, resp, <<Write("rpc", cmd)>>, ret)

\* a method that makes one round trip without a handle
PlainCall(op, resp, cmd, ret) ==
    IF rpc_client # "open" THEN Call(op, 0, <<>>, <<>>, Raise("AttributeError"))
    ELSE Call(op, 0, resp, <<Write("rpc", cmd)>>, ret)

----------------------------------------------------------------------------
(* iCubSim WorldController: object methods.  Each method is an operator of  *)
(* its arguments and of the response its round trip receives.              *)

CreateCall(args, h, resp, events, ret) ==
    [Call("create_object", h, resp, events, ret) EXCEPT !.args = args]

\* def create_object(self, obj, size, location, color, collision=1)
create_object_call(obj, size, given, resp) ==
    LET collision == IF given = <<>> THEN 1 ELSE given[1]
        args == CreateArgs(obj, size, given)
        cmd == _prepare_create_obj_command(obj, size, Location, Color, collision)
        obj_sim_id == NextSimId(sim_ids_counters, obj)
        appended == AppendEntry(objects, <<obj, obj_sim_id>>)
    IN  /\ IF rpc_client # "open"
           THEN /\ last' = CreateCall(args, 0, <<>>, <<>>, Raise("AttributeError"))
                /\ UNCHANGED <<sim_ids_counters, objects, created_objs>>
           ELSE IF _is_success(resp)
           THEN /\ sim_ids_counters' = Increment(sim_ids_counters, obj)
                /\ objects' = appended
                /\ created_objs' = Append(created_objs,
                       [handle |-> NewHandle(appended), entry |-> <<obj, obj_sim_id>>])
                /\ last' = CreateCall(args, 0, resp, <<Write("rpc", cmd)>>,
                                RetInt(NewHandle(appended)))
           ELSE /\ last' = CreateCall(args, 0, resp, <<Write("rpc", cmd)>>,
                                CreationFailed)
                /\ UNCHANGED <<sim_ids_counters, objects, created_objs>>
        /\ UNCHANGED <<icub, sim_mids_counters, models, created_mods, cleared>>

\* create_object called with all five arguments
create_object_collision(obj, size, collision, resp) ==
    create_object_call(obj, size, <<collision>>, resp)

\* create_object called without the argument collision, which defaults to 1
create_object(obj, size, resp) == create_object_call(obj, size, <<>>, resp)

\* slip: a move that is not answered [ok] empties the table
move_object_Forgets(obj_id, resp) ==
    /\ last' = HandleCall("move_object", objects, obj_id, resp,
                   _prepare_move_command_obj(Item(objects, obj_id)[1],
                                             Item(objects, obj_id)[2], Location),
                   Succeeded(resp))
    /\ objects' = IF InRange(objects, obj_id) /\ rpc_client = "open" /\ ~_is_success(resp)
                  THEN <<>> ELSE objects
    /\ UNCHANGED <<icub, sim_ids_counters, sim_mids_counters, models, hist>>

move_object(obj_id, resp) ==
    /\ last' = HandleCall("move_object", objects, obj_id, resp,
                   _prepare_move_command_obj(Item(objects, obj_id)[1],
                                             Item(objects, obj_id)[2], Location),
                   Succeeded(resp))
    /\ UNCHANGED <<icub, ctrl, hist>>

get_object_location(obj_id, resp) ==
    /\ last' = HandleCall("get_object_location", objects, obj_id, resp,
                   _prepare_get_pos_command_obj(Item(objects, obj_id)[1],
                                                Item(objects, obj_id)[2]),
                   Decoded(resp, 3))
    /\ UNCHANGED <<icub, ctrl, hist>>

rotate_object(obj_id, resp) ==
    /\ last' = HandleCall("rotate_object", objects, obj_id, resp,
                   _prepare_rot_command_obj(Item(objects, obj_id)[1],
                                            Item(objects, obj_id)[2], Location),
                   Succeeded(resp))
    /\ UNCHANGED <<icub, ctrl, hist>>

get_object_orientation(obj_id, resp) ==
    /\ last' = HandleCall("get_object_orientation", objects, obj_id, resp,
                   _prepare_get_rot_command_obj(Item(objects, obj_id)[1],
                                                Item(objects, obj_id)[2]),
                   Decoded(resp, 3))
    /\ UNCHANGED <<icub, ctrl, hist>>

----------------------------------------------------------------------------
(* iCubSim WorldController: model methods *)

create_model(m_type, resp) ==
    LET cmd == _prepare_create_command_model(m_type, "model.x", "gruen.bmp", Location)
        mod_sim_id == NextSimId(sim_mids_counters, m_type)
        appended == AppendEntry(models, <<m_type, mod_sim_id>>)
    IN  /\ IF rpc_client # "open"
           THEN /\ last' = Call("create_model", 0, <<>>, <<>>, Raise("AttributeError"))
                /\ UNCHANGED <<sim_mids_counters, models, created_mods>>
           ELSE IF _is_success(resp)
           THEN /\ sim_mids_counters' = Increment(sim_mids_counters, m_type)
                /\ models' = appended
                /\ created_mods' = Append(created_mods,
                       [handle |-> NewHandle(appended), entry |-> <<m_type, mod_sim_id>>])
                /\ last' = Call("create_model", 0, resp, <<Write("rpc", cmd)>>,
                                RetInt(NewHandle(appended)))
           ELSE /\ last' = Call("create_model", 0, resp, <<Write("rpc", cmd)>>,
                                CreationFailed)
                /\ UNCHANGED <<sim_mids_counters, models, created_mods>>
        /\ UNCHANGED <<icub, sim_ids_counters, objects, created_objs, cleared>>

move_model(mod_id, resp) ==
    /\ last' = HandleCall("move_model", models, mod_id, resp,
                   _prepare_move_command_model(Item(models, mod_id)[1],
                                               Item(models, mod_id)[2], Location),
                   Succeeded(resp))
    /\ UNCHANGED <<icub, ctrl, hist>>

get_model_location(mod_id, resp) ==
    /\ last' = HandleCall("get_model_location", models, mod_id, resp,
                   _prepare_get_pos_command_model(Item(models, mod_id)[1],
                                                  Item(models, mod_id)[2]),
                   Decoded(resp, 3))
    /\ UNCHANGED <<icub, ctrl, hist>>

rotate_model(mod_id, resp) ==
    /\ last' = HandleCall("rotate_model", models, mod_id, resp,
                   _prepare_rot_command_model(Item(models, mod_id)[1],
                                              Item(models, mod_id)[2], Location),
                   Succeeded(resp))
    /\ UNCHANGED <<icub, ctrl, hist>>

get_model_orientation(mod_id, resp) ==
    /\ last' = HandleCall("get_model_orientation", models, mod_id, resp,
                   _prepare_get_rot_command_model(Item(models, mod_id)[1],
                                                  Item(models, mod_id)[2]),
                   Decoded(resp, 3))
    /\ UNCHANGED <<icub, ctrl, hist>>

get_model_path(resp) ==
    /\ last' = PlainCall("get_model_path", resp, _prepare_get_path_command_model,
                         Decoded(resp, 1))
    /\ UNCHANGED <<icub, ctrl, hist>>

set_model_path(path, resp) ==
    /\ last' = PlainCall("set_model_path", resp, _prepare_set_path_command_model(path),
                         Succeeded(resp))
    /\ UNCHANGED <<icub, ctrl, hist>>

----------------------------------------------------------------------------
(* iCubSim WorldController: special commands *)

get_hand_location(hand, resp) ==
    /\ last' = PlainCall("get_hand_location", resp, _prepare_get_command_hand(hand),
                         Decoded(resp, 3))
    /\ UNCHANGED <<icub, ctrl, hist>>

get_screen_location(resp) ==
    /\ last' = PlainCall("get_screen_location", resp, _prepare_get_command_screen,
                         Decoded(resp, 3))
    /\ UNCHANGED <<icub, ctrl, hist>>

set_screen_location(location, resp) ==
    /\ last' = PlainCall("set_screen_location", resp, _prepare_set_command_screen(location),
                         Succeeded(resp))
    /\ UNCHANGED <<icub, ctrl, hist>>

----------------------------------------------------------------------------
(* iCubSim WorldController: del_all and the destructor *)

\* if result: clear the counters and both tables
ClearOnSuccess(result) ==
    IF result
    THEN /\ sim_ids_counters' = ClearedDict(sim_ids_counters)
         /\ sim_mids_counters' = ClearedDict(sim_mids_counters)
         /\ objects' = ClearedList(objects)
         /\ models' = ClearedList(models)
         /\ created_objs' = <<>>
         /\ created_mods' = <<>>
         /\ cleared' = (cleared \/ Len(objects) + Len(models) > 0)
    ELSE UNCHANGED <<ctrl, hist>>

del_all(resp) ==
    /\ IF rpc_client # "open"
       THEN /\ last' = Call("del_all", 0, <<>>, <<>>, Raise("AttributeError"))
            /\ UNCHANGED <<ctrl, hist>>
       ELSE /\ ClearOnSuccess(_is_success(resp))
            /\ last' = Call("del_all", 0, resp, <<Write("rpc", _prepare_del_all_command)>>,
                            RetBool(_is_success(resp)))
    /\ UNCHANGED icub

\* slip: the channels are closed before the delete-all is sent
TeardownEvents_CloseFirst(del_all_events, screen) ==
    <<Close("rpc")>> \o (IF screen THEN <<Close("screen")>> ELSE <<>>)
        \o <<Close("scenecam")>> \o del_all_events

\* the channel events of the try block of __del__, in program order
TeardownEvents(del_all_events, screen) ==
    del_all_events \o <<Close("rpc")>>
        \o (IF screen THEN <<Close("screen")>> ELSE <<>>) \o <<Close("scenecam")>>

\* slip: the destructor has no except clause
Swallowed_Propagates(e) == Raise(e)

\* except AttributeError: pass
Swallowed(e) == RetNone

\* the attributes a constructor that got as far as the stage has set
HasTables(stage) == stage \in {"tables", "scene_cam", "full"}
HasScreenOn(stage) == stage = "full"

\* the try block stops at the first statement that raises: del_all's clear()
\* without the counters, then the test of self._screen_on without that attribute
TeardownRun(stage, result, del_all_events, screen) ==
    IF result /\ ~HasTables(stage)
    THEN [events |-> del_all_events, rpc |-> "open", ret |-> Swallowed("AttributeError")]
    ELSE IF ~HasScreenOn(stage)
    THEN [events |-> del_all_events \o <<Close("rpc")>>, rpc |-> "deleted",
          ret |-> Swallowed("AttributeError")]
    ELSE [events |-> TeardownEvents(del_all_events, screen), rpc |-> "deleted",
          ret |-> RetNone]

\* without the attribute _rpc_client the first statement raises AttributeError,
\* which the except clause swallows
__del__(resp) ==
    /\ IF rpc_client # "open"
       THEN /\ last' = Call("__del__", 0, <<>>, <<>>, Swallowed("AttributeError"))
            /\ UNCHANGED <<rpc_client, ctrl, hist>>
       ELSE LET run == TeardownRun(built, _is_success(resp),
                                   <<Write("rpc", _prepare_del_all_command)>>, screen_on)
            IN  /\ ClearOnSuccess(_is_success(resp) /\ HasTables(built))
                /\ rpc_client' = run.rpc
                /\ last' = Call("__del__", 0, resp, run.events, run.ret)
    /\ UNCHANGED screen_on

----------------------------------------------------------------------------
(* iCubSim WorldController: the screen and the scene camera *)

\* a yarp image as the port sees it: its class, width and height
Image(class, width, height) == <<Str(class), I32(width), I32(height)>>

Read(port) == [ev |-> "read", port |-> port, cmd |-> <<>>]

\* arguments of set_screen_image: a yarp image, or an array of some shape
YarpImage(class, width, height) == [yarp |-> TRUE, shape |-> <<height, width>>, class |-> class]
Array(shape) == [yarp |-> FALSE, shape |-> shape, class |-> ""]

\* slip: a fourth channel is taken as RGB with alpha
ImageClass_Alpha(shape) ==
    IF Len(shape) = 2 \/ (Len(shape) = 3 /\ shape[3] = 1) THEN "ImageFloat"
    ELSE IF Len(shape) = 3 /\ shape[3] \in {3, 4} THEN "ImageRgb"
    ELSE ""

\* the yarp image class chosen for an array shape; "" for the else branch
ImageClass(shape) ==
    IF Len(shape) = 2 \/ (Len(shape) = 3 /\ shape[3] = 1) THEN "ImageFloat"
    ELSE IF Len(shape) = 3 /\ shape[3] = 3 THEN "ImageRgb"
    ELSE ""

\* out is what the port's write returns
set_screen_image(image, out) ==
    /\ last' =
         IF image.yarp
         THEN Call("set_screen_image", 0, <<>>,
                   <<Write("screen", Image(image.class, image.shape[2], image.shape[1]))>>,
                   RetBool(out))
         ELSE IF ImageClass(image.shape) = ""
         THEN Call("set_screen_image", 0, <<>>, <<>>, RetBool(FALSE))
         ELSE Call("set_screen_image", 0, <<>>,
                   <<Write("screen", Image(ImageClass(image.shape), image.shape[2],
                                           image.shape[1]))>>,
                   RetBool(out))
    /\ UNCHANGED <<icub, ctrl, hist, cam>>

\* what one read on the scene-camera port does: it fills the image with a
\* frame, or resizes the image for a frame of another size, which gives the
\* image a buffer of its own, or returns without data on a port that is not open
Frame(f) == [kind |-> "frame", frame |-> f]
Realloc(f) == [kind |-> "realloc", frame |-> f]
NoData == [kind |-> "none", frame |-> 0]

\* np_img and the link of y_img to it after one read
ReadInto(buf, r) ==
    IF r.kind = "frame" /\ buf.external THEN [np_img |-> r.frame, external |-> TRUE]
    ELSE IF r.kind = "realloc" THEN [np_img |-> buf.np_img, external |-> FALSE]
    ELSE buf

\* slip: a single read
ReadTwice_Once(buf, r1, r2) == ReadInto(buf, r1)

\* the two reads of get_world_image
ReadTwice(buf, r1, r2) == ReadInto(ReadInto(buf, r1), r2)

\* returns np_img.copy(); the response field records the frames the two
\* reads carried
get_world_image(r1, r2) ==
    LET buf == ReadTwice([np_img |-> np_img, external |-> y_external], r1, r2)
    IN  /\ np_img' = buf.np_img
        /\ y_external' = buf.external
        /\ last' = Call("get_world_image", 0, <<r1.frame, r2.frame>>,
                        <<Read("scenecam"), Read("scenecam")>>, RetValue(<<buf.np_img>>))
        /\ UNCHANGED <<icub, ctrl, hist>>

----------------------------------------------------------------------------
(* gazebo WorldController *)

Names == {"box1"}
Pose == <<0, 0, 0>>

\* gazebo _is_success: ans.size() == 1 and ans.get(0).asVocab() == 27503
gz_is_success(ans) == Len(ans) = 1 /\ asVocab32(ans[1]) = VOCAB_OK

gz_prepare_del_all_command == Strings(<<"deleteAll">>)

gz_prepare_set_pose_command_obj(obj_id, location, rotation) ==
    Strings(<<"setPose", obj_id>>) \o Floats(location) \o Floats(rotation)

gz_prepare_get_pose_command_obj(obj_id) == Strings(<<"getPose", obj_id>>)

GzCall(op, resp, cmd, ret) ==
    IF gz_rpc_client # "open" THEN Call(op, 0, <<>>, <<>>, Raise("AttributeError"))
    ELSE Call(op, 0, resp, <<Write("gz_rpc", cmd)>>, ret)

gz_del_all(resp) ==
    /\ last' = GzCall("gz_del_all", resp, gz_prepare_del_all_command,
                      RetBool(gz_is_success(resp)))
    /\ UNCHANGED gz_rpc_client

gz_set_pose(obj_id, location, rotation, resp) ==
    /\ last' = GzCall("gz_set_pose", resp,
                      gz_prepare_set_pose_command_obj(obj_id, location, rotation),
                      RetBool(gz_is_success(resp)))
    /\ UNCHANGED gz_rpc_client

gz_get_pose(obj_id, resp) ==
    /\ last' = GzCall("gz_get_pose", resp, gz_prepare_get_pose_command_obj(obj_id),
                      Decoded(resp, 6))
    /\ UNCHANGED gz_rpc_client

GzObjTypes == {"sphere", "box", "cylinder", "frame", "cone"}
GzColor == <<255, 0, 0>>
Files == {"model.sdf"}
Ints(seq) == [i \in 1..Len(seq) |-> I32(seq[i])]

gz_prepare_create_obj_command(obj_func, size, location, orientation, color) ==
    <<Str(obj_func)>> \o Floats(size) \o Floats(location) \o Floats(orientation)
        \o Ints(color)

gz_prepare_create_model_command_model(filename, location, orientation) ==
    Strings(<<"loadModelFromFile", filename>>) \o Floats(location) \o Floats(orientation)

\* the if/elif chain of create_object; "" for its else branch
ObjFunc(obj) ==
    IF obj = "sphere" THEN "makeSphere"
    ELSE IF obj = "box" THEN "makeBox"
    ELSE IF obj = "cylinder" THEN "makeCylinder"
    ELSE IF obj = "frame" THEN "makeFrame"
    ELSE ""

\* the result of a creation whose answer reads as the text: None for "[fail]",
\* the text itself otherwise
GzCreated(text) == IF text = "[fail]" THEN RetNone ELSE RetStr(text)

\* text is answer.toString(), the only thing the method reads of its answer
gz_create_object(obj, size, text) ==
    /\ last' =
         IF ObjFunc(obj) = ""
         THEN Call("gz_create_object", 0, <<>>, <<>>, RetInt(-1))
         ELSE GzCall("gz_create_object", <<>>,
                     gz_prepare_create_obj_command(ObjFunc(obj), size, Location, Pose, GzColor),
                     GzCreated(text))
    /\ UNCHANGED gz_rpc_client

gz_create_model(filename, text) ==
    /\ last' = GzCall("gz_create_model", <<>>,
                      gz_prepare_create_model_command_model(filename, Location, Pose),
                      GzCreated(text))
    /\ UNCHANGED gz_rpc_client

gz_TeardownEvents(del_all_events) == del_all_events \o <<Close("gz_rpc")>>

gz__del__(resp) ==
    IF gz_rpc_client # "open"
    THEN /\ last' = Call("gz__del__", 0, <<>>, <<>>, Swallowed("AttributeError"))
         /\ UNCHANGED gz_rpc_client
    ELSE /\ gz_rpc_client' = "deleted"
         /\ last' = Call("gz__del__", 0, resp,
                         gz_TeardownEvents(<<Write("gz_rpc", gz_prepare_del_all_command)>>),
                         RetNone)

----------------------------------------------------------------------------
(* The system: a single-threaded caller that has constructed one of the    *)
(* two controllers and calls its methods.                                  *)

\* _prepare_sim_screen: True exactly when the port opened and connected
_prepare_sim_screen(opened, connected) == opened /\ connected

\* _prepare_scene_cam returns nothing: open and connect failures are printed
\* only; the buffer holds ones and backs the yarp image
_prepare_scene_cam ==
    /\ np_img = 0
    /\ y_external = TRUE

\* the stages at which __init__ can stop: after the RPC client, after the
\* tables, after the scene camera, or at its end
Stages == {"rpc", "tables", "scene_cam", "full"}

\* outcome of open and connect on one port: a port that did not open does
\* not connect
PortOutcomes == {o \in [opened : BOOLEAN, connected : BOOLEAN] : o.connected => o.opened}
NotTried == [opened |-> FALSE, connected |-> FALSE]

\* the close() calls of one run added to the count of each port
Tally(count, events) ==
    [p \in DOMAIN count |->
        count[p] + Cardinality({k \in 1..Len(events) : events[k] = Close(p)})]

\* _prepare_sim_screen closes the screen port it opened when the connect fails
ClosedByInit(screen) ==
    [rpc |-> 0, gz_rpc |-> 0, scenecam |-> 0,
     screen |-> IF screen.opened /\ ~screen.connected THEN 1 ELSE 0]

\* the attributes after a construction that reached the stage
__init__(stage, scenecam, screen) ==
    /\ built = stage
    /\ closes = ClosedByInit(screen)
    /\ channels = [scenecam |-> scenecam, screen |-> screen]
    /\ screen_on = (HasScreenOn(stage) /\ _prepare_sim_screen(screen.opened, screen.connected))
    /\ _prepare_scene_cam

\* the caller of a method and the answer it waits for
MethodCall(op, port, cmd, obj, size) ==
    [op |-> op, port |-> port, cmd |-> cmd, obj |-> obj, size |-> size]
NoCall == MethodCall("", "", <<>>, "", <<>>)
Answer(cmd, bottle) == [to |-> cmd, bottle |-> bottle]

\* no ModelGroup built, no second caller, no motor function running
NoGroup == [built |-> FALSE, mod_list |-> <<>>, op |-> "", passed |-> <<>>,
            resps |-> <<>>, events |-> <<>>, ret |-> RetNone]
None == <<>>
Some(x) == <<x>>
ThreadIds == {1, 2}
NoThread == [pc |-> "idle", obj |-> "", cmd |-> <<>>, resp |-> <<>>, sim_id |-> 0,
             loaded |-> 0, own |-> None, ret |-> None, overlapped |-> FALSE,
             both_in_flight |-> FALSE]
NoThreads == [t \in ThreadIds |-> NoThread]
MotorArgs(part, control, created, views, axes) ==
    [part |-> part, control |-> control, created |-> created, views |-> views,
     axes |-> axes]
NoMotorArgs == MotorArgs("", "", FALSE, [ctrl |-> FALSE, enc |-> FALSE], 0)
MotorRet(kind, value, exc) == [kind |-> kind, value |-> value, exc |-> exc]
NoMotor == [fn |-> "", pc |-> "idle", args |-> NoMotorArgs, accepted |-> FALSE,
            motion |-> FALSE, polls |-> 0, done |-> FALSE,
            ret |-> MotorRet("none", <<>>, "")]

\* the tables, the histories and the simulator as construction leaves them
InitTables ==
    /\ group = NoGroup
    /\ threads = NoThreads
    /\ motor = NoMotor
    /\ pc = "idle"
    /\ call = NoCall
    /\ wire = <<>>
    /\ answer = Answer(<<>>, <<>>)
    /\ sim_ids_counters = EmptyDict
    /\ sim_mids_counters = EmptyDict
    /\ objects = <<>>
    /\ models = <<>>
    /\ last = Call("__init__", 0, <<>>, <<>>, RetNone)
    /\ created_objs = <<>>
    /\ created_mods = <<>>
    /\ cleared = FALSE
    /\ world_objs = [c \in ObjCats |-> 0]
    /\ world_mods = [c \in ModelCats |-> 0]
    /\ reply_lost = FALSE

\* the constructions explored together with the RPC methods: both auxiliary
\* ports of the iCubSim controller work, or the screen port did not open
Init ==
    /\ \/ /\ rpc_client = "open" /\ gz_rpc_client = "absent"
          /\ \E on \in BOOLEAN :
                __init__("full", [opened |-> TRUE, connected |-> TRUE],
                         [opened |-> on, connected |-> on])
       \/ /\ rpc_client = "absent" /\ gz_rpc_client = "open"
          /\ __init__("full", NotTried, NotTried)
    /\ InitTables

\* the caller holds the controller it constructed
Constructed == rpc_client # "absent"
GzConstructed == gz_rpc_client # "absent"

\* room left in the explored tables
Room == Len(objects) + Len(models) < MaxCreated

\* an answer is read only when the call makes its round trip
Answers == IF rpc_client = "open" THEN Responses ELSE {<<>>}
HandleAnswers(table, h) == IF InRange(table, h) THEN Answers ELSE {<<>>}
GzAnswers == IF gz_rpc_client = "open" THEN Responses ELSE {<<>>}

CallCreateObject ==
    /\ Constructed
    /\ \E obj \in ObjCats, size \in Sizes, resp \in Answers :
         /\ _is_success(resp) => Room
         /\ \/ create_object(obj, size, resp)
            \/ \E collision \in Collisions : create_object_collision(obj, size, collision, resp)
    /\ UNCHANGED <<gz_rpc_client, world, life, ext, cam, rpc>>

CallMoveObject ==
    /\ Constructed
    /\ \E obj_id \in Handles :
         \E resp \in HandleAnswers(objects, obj_id) : move_object(obj_id, resp)
    /\ UNCHANGED <<gz_rpc_client, world, life, ext, cam, rpc>>

CallGetObjectLocation ==
    /\ Constructed
    /\ \E obj_id \in Handles :
         \E resp \in HandleAnswers(objects, obj_id) : get_object_location(obj_id, resp)
    /\ UNCHANGED <<gz_rpc_client, world, life, ext, cam, rpc>>

CallRotateObject ==
    /\ Constructed
    /\ \E obj_id \in Handles :
         \E resp \in HandleAnswers(objects, obj_id) : rotate_object(obj_id, resp)
    /\ UNCHANGED <<gz_rpc_client, world, life, ext, cam, rpc>>

CallGetObjectOrientation ==
    /\ Constructed
    /\ \E obj_id \in Handles :
         \E resp \in HandleAnswers(objects, obj_id) : get_object_orientation(obj_id, resp)
    /\ UNCHANGED <<gz_rpc_client, world, life, ext, cam, rpc>>

CallCreateModel ==
    /\ Constructed
    /\ \E m_type \in ModelCats, resp \in Answers :
         /\ _is_success(resp) => Room
         /\ create_model(m_type, resp)
    /\ UNCHANGED <<gz_rpc_client, world, life, ext, cam, rpc>>

CallMoveModel ==
    /\ Constructed
    /\ \E mod_id \in Handles :
         \E resp \in HandleAnswers(models, mod_id) : move_model(mod_id, resp)
    /\ UNCHANGED <<gz_rpc_client, world, life, ext, cam, rpc>>

CallGetModelLocation ==
    /\ Constructed
    /\ \E mod_id \in Handles :
         \E resp \in HandleAnswers(models, mod_id) : get_model_location(mod_id, resp)
    /\ UNCHANGED <<gz_rpc_client, world, life, ext, cam, rpc>>

CallRotateModel ==
    /\ Constructed
    /\ \E mod_id \in Handles :
         \E resp \in HandleAnswers(models, mod_id) : rotate_model(mod_id, resp)
    /\ UNCHANGED <<gz_rpc_client, world, life, ext, cam, rpc>>

CallGetModelOrientation ==
    /\ Constructed
    /\ \E mod_id \in Handles :
         \E resp \in HandleAnswers(models, mod_id) : get_model_orientation(mod_id, resp)
    /\ UNCHANGED <<gz_rpc_client, world, life, ext, cam, rpc>>

CallGetModelPath ==
    /\ Constructed
    /\ \E resp \in Answers : get_model_path(resp)
    /\ UNCHANGED <<gz_rpc_client, world, life, ext, cam, rpc>>

CallSetModelPath ==
    /\ Constructed
    /\ \E path \in Paths, resp \in Answers : set_model_path(path, resp)
    /\ UNCHANGED <<gz_rpc_client, world, life, ext, cam, rpc>>

CallGetHandLocation ==
    /\ Constructed
    /\ \E hand \in Hands, resp \in Answers : get_hand_location(hand, resp)
    /\ UNCHANGED <<gz_rpc_client, world, life, ext, cam, rpc>>

CallGetScreenLocation ==
    /\ Constructed
    /\ \E resp \in Answers : get_screen_location(resp)
    /\ UNCHANGED <<gz_rpc_client, world, life, ext, cam, rpc>>

CallSetScreenLocation ==
    /\ Constructed
    /\ \E resp \in Answers : set_screen_location(Location, resp)
    /\ UNCHANGED <<gz_rpc_client, world, life, ext, cam, rpc>>

CallDelAll ==
    /\ Constructed
    /\ \E resp \in Answers : del_all(resp)
    /\ UNCHANGED <<gz_rpc_client, world, life, ext, cam, rpc>>

CallDel ==
    /\ Constructed
    /\ \E resp \in Answers : __del__(resp)
    /\ UNCHANGED <<gz_rpc_client, world, life, aux, cam, rpc>>
    /\ closes' = Tally(closes, last'.events)

GzCallDelAll ==
    /\ GzConstructed
    /\ \E resp \in GzAnswers : gz_del_all(resp)
    /\ UNCHANGED <<icub, ctrl, hist, world, life, ext, cam, rpc>>

GzCallSetPose ==
    /\ GzConstructed
    /\ \E obj_id \in Names, resp \in GzAnswers : gz_set_pose(obj_id, Location, Pose, resp)
    /\ UNCHANGED <<icub, ctrl, hist, world, life, ext, cam, rpc>>

GzCallGetPose ==
    /\ GzConstructed
    /\ \E obj_id \in Names, resp \in GzAnswers : gz_get_pose(obj_id, resp)
    /\ UNCHANGED <<icub, ctrl, hist, world, life, ext, cam, rpc>>

\* answers to a creation as toString() renders them: a failure, a name, or
\* the empty bottle of a failed round trip
GzTexts == IF gz_rpc_client = "open" THEN {"[fail]", "box1", ""} ELSE {""}

GzCallCreateObject ==
    /\ GzConstructed
    /\ \E obj \in GzObjTypes, size \in Sizes :
         \E text \in (IF ObjFunc(obj) = "" THEN {""} ELSE GzTexts) :
           gz_create_object(obj, size, text)
    /\ UNCHANGED <<icub, ctrl, hist, world, life, ext, cam, rpc>>

GzCallCreateModel ==
    /\ GzConstructed
    /\ \E filename \in Files, text \in GzTexts : gz_create_model(filename, text)
    /\ UNCHANGED <<icub, ctrl, hist, world, life, ext, cam, rpc>>

GzCallDel ==
    /\ GzConstructed
    /\ \E resp \in GzAnswers : gz__del__(resp)
    /\ UNCHANGED <<icub, ctrl, hist, world, life, aux, cam, rpc>>
    /\ closes' = Tally(closes, last'.events)

Next ==
    \/ CallCreateObject
    \/ CallMoveObject
    \/ CallGetObjectLocation
    \/ CallRotateObject
    \/ CallGetObjectOrientation
    \/ CallCreateModel
    \/ CallMoveModel
    \/ CallGetModelLocation
    \/ CallRotateModel
    \/ CallGetModelOrientation
    \/ CallGetModelPath
    \/ CallSetModelPath
    \/ CallGetHandLocation
    \/ CallGetScreenLocation
    \/ CallSetScreenLocation
    \/ CallDelAll
    \/ CallDel
    \/ GzCallDelAll
    \/ GzCallSetPose
    \/ GzCallGetPose
    \/ GzCallCreateObject
    \/ GzCallCreateModel
    \/ GzCallDel

Spec == Init /\ [][Next]_vars

----------------------------------------------------------------------------
(* The iCubSim controller together with the simulator it talks to: the     *)
(* simulator answers each command, executes it exactly when it answers     *)
(* [ok], and the transport hands the controller that answer or, when the   *)
(* round trip fails, the empty bottle.                                     *)

InitWorld == Init /\ rpc_client = "open" /\ screen_on

\* room left in the simulator's explored world
WorldRoom ==
    world_objs["box"] + world_objs["ssph"] + world_mods["model"] + world_mods["smodel"]
        < MaxCreated

SimCreateObject ==
    /\ \E obj \in ObjCats, reply \in Responses :
         \E resp \in Deliver(reply) :
           /\ Executed(reply) => WorldRoom
           /\ _is_success(resp) => Room
           /\ create_object(obj, <<1, 1, 1>>, resp)
           /\ world_objs' = WorldMk(world_objs, obj, reply)
           /\ reply_lost' = (reply_lost \/ Lost(reply, resp))
    /\ UNCHANGED <<gz_rpc_client, world_mods, life, ext, cam, rpc>>

SimCreateModel ==
    /\ \E m_type \in ModelCats, reply \in Responses :
         \E resp \in Deliver(reply) :
           /\ Executed(reply) => WorldRoom
           /\ _is_success(resp) => Room
           /\ create_model(m_type, resp)
           /\ world_mods' = WorldMk(world_mods, m_type, reply)
           /\ reply_lost' = (reply_lost \/ Lost(reply, resp))
    /\ UNCHANGED <<gz_rpc_client, world_objs, life, ext, cam, rpc>>

SimMoveObject ==
    /\ \E obj_id \in Handles :
         \E resp \in HandleAnswers(objects, obj_id) : move_object(obj_id, resp)
    /\ UNCHANGED <<gz_rpc_client, world, life, ext, cam, rpc>>

SimDelAll ==
    /\ \E reply \in Responses :
         \E resp \in Deliver(reply) :
           /\ del_all(resp)
           /\ world_objs' = WorldDelAll(world_objs, reply)
           /\ world_mods' = WorldDelAll(world_mods, reply)
           /\ reply_lost' = (reply_lost \/ Lost(reply, resp))
    /\ UNCHANGED <<gz_rpc_client, life, ext, cam, rpc>>

NextWorld ==
    \/ SimCreateObject
    \/ SimCreateModel
    \/ SimMoveObject
    \/ SimDelAll

SpecWorld == InitWorld /\ [][NextWorld]_vars

----------------------------------------------------------------------------
(* Life of one iCubSim controller: every way its construction can end,     *)
(* the calls on its screen and scene-camera ports, and its destructor.     *)
(* A constructor that raised hands no object to the caller, so only the    *)
(* destructor runs on it.                                                  *)

InitLife ==
    /\ rpc_client = "open" /\ gz_rpc_client = "absent"
    /\ \E stage \in Stages, scenecam \in PortOutcomes, screen \in PortOutcomes :
         /\ ~HasTables(stage) \/ stage = "tables" => scenecam = NotTried
         /\ ~HasScreenOn(stage) => ~screen.connected
         /\ stage \in {"rpc", "tables"} => screen = NotTried
         /\ __init__(stage, scenecam, screen)
    /\ InitTables

Shapes == {<<2, 3>>, <<2, 3, 1>>, <<2, 3, 3>>, <<2, 3, 4>>, <<2, 3, 2>>, <<6>>,
           <<2, 3, 1, 1>>, <<>>}
Images == {Array(shape) : shape \in Shapes} \cup {YarpImage("ImageRgb", 3, 2)}

Frames == 1..MaxFrame

\* the scene-camera port is open from its successful open to the close of
\* the destructor; a read on an open port that nothing feeds does not return
SceneCamOpen == channels.scenecam.opened /\ rpc_client = "open"
ReadOutcomes ==
    IF ~SceneCamOpen THEN {NoData}
    ELSE IF channels.scenecam.connected
    THEN {Frame(f) : f \in Frames} \cup {Realloc(f) : f \in Frames}
    ELSE {}

LifeSetScreenImage ==
    /\ built = "full"
    /\ \E image \in Images, out \in BOOLEAN : set_screen_image(image, out)
    /\ UNCHANGED <<gz_rpc_client, world, life, ext, rpc>>

LifeGetWorldImage ==
    /\ built = "full"
    /\ \E r1 \in ReadOutcomes, r2 \in ReadOutcomes : get_world_image(r1, r2)
    /\ UNCHANGED <<gz_rpc_client, world, life, ext, rpc>>

LifeDel ==
    /\ \E resp \in Answers : __del__(resp)
    /\ UNCHANGED <<gz_rpc_client, world, life, aux, cam, rpc>>
    /\ closes' = Tally(closes, last'.events)

NextLife ==
    \/ LifeSetScreenImage
    \/ LifeGetWorldImage
    \/ LifeDel

SpecLife == InitLife /\ [][NextLife]_vars

----------------------------------------------------------------------------
(* One caller inside _execute: the method builds its command, the write on *)
(* the RPC port sends it, the port hands back the answer (the empty bottle *)
(* when the round trip fails), and the method returns what it makes of the *)
(* answer.                                                                 *)

InitRpc == Init

\* the calls the caller can make: create_object, get_hand_location and
\* del_all on the iCubSim controller, get_pose and del_all on the gazebo one
MethodCalls ==
    IF Constructed
    THEN {MethodCall("create_object", "rpc",
                     _prepare_create_obj_command(obj, size, Location, Color, 1), obj, size) :
              obj \in ObjCats, size \in Sizes}
         \cup {MethodCall("get_hand_location", "rpc", _prepare_get_command_hand(hand),
                          hand, <<>>) : hand \in Hands}
         \cup {MethodCall("del_all", "rpc", _prepare_del_all_command, "", <<>>)}
    ELSE {MethodCall("gz_get_pose", "gz_rpc", gz_prepare_get_pose_command_obj(obj_id),
                     obj_id, <<>>) : obj_id \in Names}
         \cup {MethodCall("gz_del_all", "gz_rpc", gz_prepare_del_all_command, "", <<>>)}

\* slip: the write does not wait for the answer
WriteReturned_AtOnce(at) == at \in {"sent", "answered"}

\* self._rpc_client.write(cmd, ans) returns when the answer has been read
WriteReturned(at) == at = "answered"

\* ans = yarp.Bottle(); self._rpc_client.write(cmd, ans): the command leaves
ExecuteWrite ==
    /\ pc = "idle"
    /\ \E c \in MethodCalls :
         /\ call' = c
         /\ wire' = Append(wire, c.cmd)
    /\ pc' = "sent"
    /\ UNCHANGED <<icub, gz_rpc_client, ctrl, hist, last, world, life, ext, cam, answer>>

\* the port reads the answer to the oldest command on the wire
ExecuteRead ==
    /\ wire # <<>>
    /\ \E resp \in Responses :
         /\ (call.op = "create_object" /\ _is_success(resp)) => Room
         /\ answer' = Answer(Head(wire), resp)
    /\ wire' = Tail(wire)
    /\ pc' = IF pc = "sent" THEN "answered" ELSE pc
    /\ UNCHANGED <<icub, gz_rpc_client, ctrl, hist, last, world, life, ext, cam, call>>

\* return ans, and the rest of the method
ExecuteReturn ==
    /\ pc # "idle"
    /\ WriteReturned(pc)
    /\ \/ call.op = "create_object" /\ create_object(call.obj, call.size, answer.bottle)
          /\ UNCHANGED gz_rpc_client
       \/ call.op = "get_hand_location" /\ get_hand_location(call.obj, answer.bottle)
          /\ UNCHANGED gz_rpc_client
       \/ call.op = "del_all" /\ del_all(answer.bottle)
          /\ UNCHANGED gz_rpc_client
       \/ call.op = "gz_get_pose" /\ gz_get_pose(call.obj, answer.bottle)
          /\ UNCHANGED <<icub, ctrl, hist>>
       \/ call.op = "gz_del_all" /\ gz_del_all(answer.bottle)
          /\ UNCHANGED <<icub, ctrl, hist>>
    /\ pc' = "idle"
    /\ UNCHANGED <<world, life, ext, cam, call, wire, answer>>

NextRpc ==
    \/ ExecuteWrite
    \/ ExecuteRead
    \/ ExecuteReturn

SpecRpc == InitRpc /\ [][NextRpc]_vars

----------------------------------------------------------------------------
(* Properties *)

ObjHandleOps == {"move_object", "rotate_object", "get_object_location",
                 "get_object_orientation"}
ModelHandleOps == {"move_model", "rotate_model", "get_model_location",
                   "get_model_orientation"}
CreateOps == {"create_object", "create_model"}

\* the call reached the wire: a command was written and an answer read
Answered == last.events # <<>>

Ok == <<VOCAB_OK>>

\* the k-th recorded creation returned k-1 and its entry still sits at index k-1
Stable(created, table) ==
    \A k \in 1..Len(created) :
        /\ created[k].handle = k - 1
        /\ k <= Len(table)
        /\ table[k] = created[k].entry

\* C1: in each table taken separately, as long as no del_all has succeeded
\* since, the k-th successful creation returned handle k-1 and the entry at
\* index k-1 is still the (category, simulator id) pair that creation recorded,
\* whatever other calls happened in between.
C1_HandleStability ==
    /\ Stable(created_objs, objects)
    /\ Stable(created_mods, models)

C1_Witness ==
    /\ Len(created_objs) = 1
    /\ Len(created_mods) = 1
    /\ created_objs[1].entry[1] = "ssph"
    /\ last.op = "move_object"
    /\ last.h = 0
    /\ last.ret = RetBool(FALSE)

\* every recorded creation of category C carries 1 + the number of earlier
\* recorded creations of C
Sequential(created) ==
    \A k \in 1..Len(created) :
        created[k].entry[2] =
            1 + Cardinality({j \in 1..(k - 1) : created[j].entry[1] = created[k].entry[1]})

\* C2: a successful creation of category C records simulator id 1 + the number
\* of earlier successful creations of C since construction or the last
\* successful del_all; a creation answered by anything but the single atom [ok]
\* returns -1 and changes neither the counters nor the tables.
C2_CounterLockstep ==
    /\ [](Sequential(created_objs) /\ Sequential(created_mods))
    /\ [][(last'.op \in CreateOps /\ last'.events # <<>> /\ last'.resp # Ok)
            => (last'.ret = RetInt(-1) /\ UNCHANGED ctrl)]_vars

C2_Witness ==
    /\ Len(created_objs) = 2
    /\ created_objs[1].entry[1] = created_objs[2].entry[1]
    /\ last.op = "create_object"
    /\ last.resp = <<VOCAB_OK, 0>>
    /\ last.ret = RetInt(-1)

\* C3: after del_all received [ok] both tables are empty; while a table is
\* empty every handle fails with the out-of-range error before anything is
\* sent; and the first successful creation after the reset, of any category in
\* either table, records simulator id 1 and returns handle 0.
C3_ResetThenFresh ==
    /\ (last.op = "del_all" /\ Answered /\ last.resp = Ok)
         => (Len(objects) = 0 /\ Len(models) = 0)
    /\ (last.op \in ObjHandleOps /\ Len(objects) = 0)
         => (last.ret = Raise("IndexError") /\ last.events = <<>>)
    /\ (last.op \in ModelHandleOps /\ Len(models) = 0)
         => (last.ret = Raise("IndexError") /\ last.events = <<>>)
    /\ Len(created_objs) >= 1
         => (created_objs[1].handle = 0 /\ created_objs[1].entry[2] = 1)
    /\ Len(created_mods) >= 1
         => (created_mods[1].handle = 0 /\ created_mods[1].entry[2] = 1)

C3_Witness ==
    /\ cleared
    /\ Len(created_objs) = 1
    /\ last.op = "create_object"
    /\ last.ret = RetInt(0)

Emptied ==
    /\ sim_ids_counters = EmptyDict
    /\ sim_mids_counters = EmptyDict
    /\ objects = <<>>
    /\ models = <<>>

\* C4: del_all answered by the single atom [ok] empties the object counters, the
\* model counters, the object table and the model table together and returns
\* True; answered by anything else it returns False and leaves all four alone.
C4_DelAllAllOrNothing ==
    /\ []((last.op = "del_all" /\ Answered /\ last.ret = RetBool(TRUE)) => Emptied)
    /\ [][(last'.op = "del_all" /\ last'.events # <<>>)
            => IF last'.resp = Ok
               THEN last'.ret = RetBool(TRUE) /\ Emptied'
               ELSE last'.ret = RetBool(FALSE) /\ UNCHANGED ctrl]_vars

C4_Witness ==
    /\ last.op = "del_all"
    /\ last.ret = RetBool(FALSE)
    /\ Len(objects) = 1
    /\ Len(models) = 1

TableOf(op) == IF op \in ObjHandleOps THEN objects ELSE models

\* C5: a handle-taking method called with a handle that is negative or not
\* below the table length fails with the out-of-range error and sends nothing.
C5_OutOfRangeRejected ==
    (/\ last.op \in ObjHandleOps \cup ModelHandleOps
     /\ (last.h < 0 \/ last.h >= Len(TableOf(last.op))))
        => (last.ret = Raise("IndexError") /\ last.events = <<>>)

SuccessOps == {"move_object", "rotate_object", "move_model", "rotate_model",
               "set_model_path", "set_screen_location", "del_all",
               "gz_del_all", "gz_set_pose"}

\* C6: _is_success is false for the empty answer, for an answer of two or more
\* atoms even when the first is [ok], and for a single atom other than [ok];
\* it is true for the single atom [ok] (27503).
C6_IsSuccess ==
    (last.op \in SuccessOps /\ Answered) =>
        /\ last.ret.kind = "bool"
        /\ Len(last.resp) = 0 => ~last.ret.bool
        /\ Len(last.resp) >= 2 => ~last.ret.bool
        /\ (Len(last.resp) = 1 /\ last.resp[1] # 27503) => ~last.ret.bool
        /\ (Len(last.resp) = 1 /\ last.resp[1] = 27503) => last.ret.bool

C6_Witness ==
    /\ last.op = "rotate_model"
    /\ last.resp = <<VOCAB_OK, 0>>
    /\ last.ret = RetBool(FALSE)

ThreeAtomQueries == {"get_object_location", "get_object_orientation",
                     "get_model_location", "get_model_orientation",
                     "get_hand_location", "get_screen_location"}
QueryOps == ThreeAtomQueries \cup {"get_model_path", "gz_get_pose"}

Documented(op) ==
    IF op \in ThreeAtomQueries THEN 3 ELSE IF op = "get_model_path" THEN 1 ELSE 6

\* C7: a query returns a decoded value exactly when its answer has the
\* documented number of atoms (3, 1 for get_model_path, 6 for get_pose) and
\* returns None for every other count.
C7_QueryArity ==
    (last.op \in QueryOps /\ Answered) =>
        IF Len(last.resp) = Documented(last.op)
        THEN last.ret.kind = "value" /\ Len(last.ret.seq) = Documented(last.op)
        ELSE last.ret = RetNone

C7_Witness ==
    /\ last.op = "gz_get_pose"
    /\ Len(last.resp) = 7
    /\ last.ret = RetNone

BoolOps == {"move_object", "rotate_object", "move_model", "rotate_model",
            "set_model_path", "set_screen_location"}

\* C8: whatever answer arrives, a call answered by anything but the single
\* atom [ok] reports the failure by its return value: the creations return -1
\* and the move, rotate, set-path and set-screen-location calls return False.
C8_FailureBySentinel ==
    (Answered /\ last.resp # Ok) =>
        /\ last.op \in CreateOps => last.ret = RetInt(-1)
        /\ last.op \in BoolOps => last.ret = RetBool(FALSE)

C8_Witness ==
    /\ last.op = "set_model_path"
    /\ last.resp = <<>>
    /\ last.ret = RetBool(FALSE)

\* the controller's counter of every category is the simulator's, and every
\* table entry (C, i) is one of the things of category C the simulator holds
InLockstep ==
    /\ \A c \in ObjCats : Counter(sim_ids_counters, c) = world_objs[c]
    /\ \A c \in ModelCats : Counter(sim_mids_counters, c) = world_mods[c]
    /\ \A k \in 1..Len(objects) : objects[k][2] <= world_objs[objects[k][1]]
    /\ \A k \in 1..Len(models) : models[k][2] <= world_mods[models[k][1]]

TeardownOps == {"__del__", "gz__del__"}

IsDelAll(e) ==
    /\ e.ev = "write"
    /\ e.cmd \in {_prepare_del_all_command, gz_prepare_del_all_command}

\* C10: in a teardown, every channel close comes after the delete-all command
\* was written to the RPC channel.
C10_DelAllBeforeClose ==
    last.op \in TeardownOps =>
        \A i \in 1..Len(last.events) :
            last.events[i].ev = "close" =>
                \E j \in 1..(i - 1) : IsDelAll(last.events[j])

C10_Witness ==
    /\ last.op = "__del__"
    /\ screen_on
    /\ Len(last.events) = 4
    /\ last.events[4] = Close("scenecam")

Closes(port) == \E i \in 1..Len(last.events) : last.events[i] = Close(port)

\* C11: a run of the destructor attempts every cleanup step, the delete-all,
\* the close of the RPC port, the close of the screen port when the screen is
\* on, and the close of the scene-camera port, and lets no exception out,
\* also on a controller whose constructor did not reach its end.
C11_EveryStepAttempted ==
    (last.op = "__del__" /\ last.events # <<>>) =>
        /\ IsDelAll(last.events[1])
        /\ Closes("rpc")
        /\ screen_on => Closes("screen")
        /\ Closes("scenecam")
        /\ last.ret.kind # "raise"

\* the controller has been torn down: the attribute _rpc_client is deleted
Closed == rpc_client = "deleted" \/ gz_rpc_client = "deleted"

\* C12: a destructor run on a controller that is already closed raises
\* nothing, sends and closes nothing, and leaves the attribute, the tables,
\* the counters and the screen flag as the first run left them.
C12_TeardownIdempotent ==
    [][(Closed /\ last'.op \in TeardownOps) =>
          /\ last'.ret = RetNone
          /\ last'.events = <<>>
          /\ UNCHANGED <<icub, gz_rpc_client, ctrl>>]_vars

C12_Witness ==
    /\ Closed
    /\ last.op \in TeardownOps
    /\ last.events = <<>>
    /\ last.ret = RetNone

\* C13: once the destructor has closed the controller, no call writes a
\* command on the RPC port or changes a table or a counter, and the
\* controller stays closed.
C13_ClosedIsTerminal ==
    [][Closed =>
          /\ last'.events = <<>>
          /\ UNCHANGED <<icub, gz_rpc_client, ctrl>>]_vars

C13_Witness ==
    /\ rpc_client = "deleted"
    /\ Len(objects) > 0
    /\ last.op = "move_object"
    /\ InRange(objects, last.h)
    /\ last.events = <<>>
    /\ last.ret = Raise("AttributeError")

\* the boolean attributes a completed constructor has recorded
Flags == [f \in {"_screen_on"} |-> screen_on]

Available(outcome) == outcome.opened /\ outcome.connected

\* C14: a constructor that returned has recorded, for the scene-camera port
\* and for the screen port, a boolean attribute that is true exactly when
\* that port both opened and connected.
C14_FlagPerChannel ==
    built = "full" /\ rpc_client # "absent" =>
        /\ \E f \in DOMAIN Flags : Flags[f] = Available(channels.screen)
        /\ \E f \in DOMAIN Flags : Flags[f] = Available(channels.scenecam)

\* what the claim expects on the screen port for an array of the shape
ExpectedScreenWrites(shape) ==
    IF Len(shape) = 2 \/ (Len(shape) = 3 /\ shape[3] = 1)
    THEN <<Write("screen", Image("ImageFloat", shape[2], shape[1]))>>
    ELSE IF Len(shape) = 3 /\ shape[3] = 3
    THEN <<Write("screen", Image("ImageRgb", shape[2], shape[1]))>>
    ELSE <<>>

\* C15: set_screen_image with an array of shape (H,W) or (H,W,1) makes exactly
\* one write of a float image of width W and height H on the screen port, with
\* shape (H,W,3) exactly one write of an RGB image of width W and height H,
\* and with any other shape it returns False and writes nothing.
C15_ScreenImageByShape ==
    [][\A shape \in Shapes, out \in BOOLEAN :
          set_screen_image(Array(shape), out) =>
              /\ last'.events = ExpectedScreenWrites(shape)
              /\ ExpectedScreenWrites(shape) = <<>> => last'.ret = RetBool(FALSE)]_vars

C15_Witness ==
    /\ last.op = "set_screen_image"
    /\ last.events = <<Write("screen", Image("ImageFloat", 3, 2))>>

TwoReads == last.events = <<Read("scenecam"), Read("scenecam")>>

\* C16 as claimed: every get_world_image makes exactly two reads on the
\* scene-camera port and the image it returns is the frame of the second read.
C16_ReturnsSecondRead ==
    last.op = "get_world_image" =>
        /\ TwoReads
        /\ last.ret = RetValue(<<last.resp[2]>>)

\* C16: every get_world_image makes exactly two reads on the scene-camera
\* port into the same yarp image and returns a copy of np_img; the copy is
\* the frame of the second read when that read carried a frame and no read
\* has moved the yarp image off np_img.
C16_TwoReads ==
    last.op = "get_world_image" =>
        /\ TwoReads
        /\ (y_external /\ last.resp[2] # 0) => last.ret = RetValue(<<last.resp[2]>>)

C16_Witness ==
    /\ last.op = "get_world_image"
    /\ TwoReads
    /\ y_external
    /\ last.resp = <<1, 2>>
    /\ last.ret = RetValue(<<2>>)

SubCommands == {"mk", "set", "get", "rot", "del"}

WorldEnvelope(cmd) ==
    /\ Len(cmd) >= 3
    /\ cmd[1] = Str("world")
    /\ \E sub \in SubCommands : cmd[2] = Str(sub)
    /\ cmd[3].t = "string"

\* every command written on one of the ports is a world envelope
AllWorldEnvelopes(ports) ==
    \A i \in 1..Len(last.events) :
        (last.events[i].ev = "write" /\ last.events[i].port \in ports) =>
            WorldEnvelope(last.events[i].cmd)

C20_NameOrEmptyString ==
    [][\A obj \in GzObjTypes, size \in Sizes, text \in GzTexts :
          (gz_rpc_client = "open" /\ gz_create_object(obj, size, text)) =>
              last'.ret = IF ObjFunc(obj) # "" /\ text # "[fail]"
                          THEN RetStr(text) ELSE RetStr("")]_vars

\* the atoms of cmd from position from+1 on are the elements of seq as floats
FloatsAt(cmd, from, seq) ==
    \A i \in 1..Len(seq) : from + i <= Len(cmd) /\ cmd[from + i] = F64(seq[i])

\* the envelope the claim describes for the arguments
CreateEnvelope(cmd, obj, size, location, color, collision) ==
    /\ Len(cmd) = 3 + Len(size) + Len(location) + Len(color) + 1
    /\ cmd[1] = Str("world") /\ cmd[2] = Str("mk") /\ cmd[3] = Str(obj)
    /\ FloatsAt(cmd, 3, size)
    /\ FloatsAt(cmd, 3 + Len(size), location)
    /\ FloatsAt(cmd, 3 + Len(size) + Len(location), color)
    /\ cmd[Len(cmd)] = I32(collision)

\* C18: the one command a create_object call writes is "world", "mk", the
\* category, then the elements of size in order as 64-bit floats, as many as
\* the caller gave whatever the category, then those of location, then those
\* of color, then collision as a 32-bit integer; without the argument
\* collision that last atom is 1.
C18_CreateEnvelope ==
    (last.op = "create_object" /\ last.events # <<>>) =>
        /\ Len(last.events) = 1
        /\ CreateEnvelope(last.events[1].cmd, last.args.obj, last.args.size, Location, Color,
                          IF last.args.collision = <<>> THEN 1 ELSE last.args.collision[1])

\* a box created with a single size value and without the argument collision
C18_Witness ==
    /\ last.op = "create_object"
    /\ last.args = CreateArgs("box", <<1>>, <<>>)
    /\ last.events = <<Write("rpc", Strings(<<"world", "mk", "box">>) \o Floats(<<1>>)
                                       \o Floats(<<2, 3, 4>>) \o Floats(<<1, 0, 0>>)
                                       \o <<I32(1)>>)>>

\* the step in which a method returns to its caller
Returns == pc # "idle" /\ pc' = "idle"

\* C19: a method returns only after the answer to the command it wrote has
\* been read, having written exactly that one command and using that answer,
\* so with one caller at most one command is on the wire unanswered and each
\* answer belongs to the call that reads it.
C19_OneRoundTrip ==
    /\ [](Len(wire) <= 1)
    /\ [][Returns =>
             /\ pc = "answered"
             /\ answer.to = call.cmd
             /\ last'.op = call.op
             /\ last'.events = <<Write(call.port, call.cmd)>>
             /\ last'.resp = answer.bottle]_vars

C19_Witness ==
    /\ pc = "idle"
    /\ last.op = "create_object"
    /\ last.events = <<Write("rpc", call.cmd)>>
    /\ last.resp = Ok
    /\ answer = Answer(call.cmd, Ok)
    /\ Len(objects) = 2
    /\ wire = <<>>

\* the envelope the protocol table gives a handle method for a table entry
HandleEnvelope(op, entry) ==
    Strings(<<"world",
              IF op \in {"move_object", "move_model"} THEN "set"
              ELSE IF op \in {"get_object_location", "get_model_location"} THEN "get"
              ELSE "rot",
              entry[1]>>)
        \o <<I32(entry[2])>>
        \o (IF op \in {"move_object", "move_model", "rotate_object", "rotate_model"}
            THEN Floats(Location) ELSE <<>>)

\* C24: a move, rotate, get-location or get-orientation call on an object or
\* a model with a handle h, 0 <= h < length of the table, writes one command:
\* "world", the verb of the method ("set", "get", "rot", "rot"), then the
\* category and the simulator id stored at index h, then the three
\* coordinates for move and rotate and nothing more for the two queries.
C24_EnvelopeOfEntry ==
    (/\ last.op \in ObjHandleOps \cup ModelHandleOps
     /\ 0 <= last.h /\ last.h < Len(TableOf(last.op))
     /\ Answered)
        => last.events = <<Write("rpc", HandleEnvelope(last.op, TableOf(last.op)[last.h + 1]))>>

C24_Witness ==
    /\ Len(objects) = 2
    /\ objects[1] # objects[2]
    /\ last.op = "get_object_orientation"
    /\ last.h = 1
    /\ last.events = <<Write("rpc", Strings(<<"world", "rot", objects[2][1]>>)
                                       \o <<I32(objects[2][2])>>)>>

FrameOps ==
    ObjHandleOps \cup ModelHandleOps
        \cup {"get_model_path", "set_model_path", "get_hand_location",
              "get_screen_location", "set_screen_location"}

\* C25: a move, rotate, location or orientation query, model-path, hand or
\* screen-location call leaves both tables and both counters as they were
\* whatever its answer; a move_object not answered [ok] returns False, and a
\* get_object_location that follows it with the same handle names the same
\* category and simulator id as the move did.
C25_FrameOfMutations ==
    /\ [][last'.op \in FrameOps => UNCHANGED ctrl]_vars
    /\ []((last.op = "move_object" /\ Answered /\ last.resp # Ok)
            => last.ret = RetBool(FALSE))
    /\ [][(/\ last.op = "move_object" /\ Answered /\ last.resp # Ok
           /\ last'.op = "get_object_location" /\ last'.h = last.h
           /\ last'.events # <<>>)
            => /\ last'.events[1].cmd[3] = last.events[1].cmd[3]
               /\ last'.events[1].cmd[4] = last.events[1].cmd[4]]_vars

C25_Witness ==
    /\ last.op = "move_object"
    /\ Answered
    /\ last.resp = <<0>>
    /\ last.ret = RetBool(FALSE)
    /\ Len(objects) = 2

\* counters and entries of one table agree
Numbered(table, counters, cats) ==
    /\ \A c \in cats :
          Counter(counters, c) = Cardinality({k \in 1..Len(table) : table[k][1] = c})
    /\ \A k \in 1..Len(table) :
          table[k][2] = Cardinality({j \in 1..k : table[j][1] = table[k][1]})
    /\ \A j, k \in 1..Len(table) : j # k => table[j] # table[k]

\* C26: with one caller, in every state and for each category the counter
\* equals the number of entries of that category in its table, the simulator
\* ids of those entries in table order are 1, 2, ..., counter, and no two
\* entries of a table are equal.
C26_CountersMatchTables ==
    /\ Numbered(objects, sim_ids_counters, ObjCats)
    /\ Numbered(models, sim_mids_counters, ModelCats)
    /\ DOMAIN sim_ids_counters \subseteq ObjCats
    /\ DOMAIN sim_mids_counters \subseteq ModelCats

C26_Witness ==
    /\ Len(objects) = 2
    /\ objects[1][1] = objects[2][1]
    /\ Counter(sim_ids_counters, objects[1][1]) = 2
    /\ objects[2][2] = 2

\* C29: over construction and teardown of an iCubSim controller no port is
\* closed twice, the screen port is closed only if it opened, and once the
\* destructor has run the RPC port and the scene-camera port (if the
\* constructor got as far as creating it) have each been closed exactly once
\* and the screen port exactly once if it opened (by the constructor when its
\* connect failed, by the destructor otherwise).
C29_ClosedExactlyOnce ==
    /\ \A p \in DOMAIN closes : closes[p] <= 1
    /\ closes.screen = 1 => channels.screen.opened
    /\ last.op = "__del__"
          => /\ closes.rpc = 1
             /\ built \in {"scene_cam", "full"} => closes.scenecam = 1
             /\ channels.screen.opened => closes.screen = 1

----------------------------------------------------------------------------
(* ModelGroup: a list of model handles of one iCubSim controller, created  *)
(* by the constructor and moved or rotated together.  The controller is    *)
(* shared: models can be created on it outside the group.                  *)

\* the answers of the simulator to the commands of a group: [ok] or not
GroupAnswers == {<<VOCAB_OK>>, <<0>>}
GroupAnswerSeqs(n) == [1..n -> GroupAnswers]

\* the controller as the group sees it between two of its calls
Controller(table, counters, created, calls) ==
    [models |-> table, counters |-> counters, created |-> created, calls |-> calls]

\* self._mod_list.append(controller.create_model(mod_type, mod[0], mod[1], start_pos))
\* for each mod of model_list, from the k-th on
RECURSIVE CreateEach(_, _, _, _, _, _)
CreateEach(m_type, n, resps, k, c, mod_list) ==
    IF k > n THEN [controller |-> c, mod_list |-> mod_list]
    ELSE LET cmd == _prepare_create_command_model(m_type, "model.x", "gruen.bmp", Location)
             entry == <<m_type, NextSimId(c.counters, m_type)>>
             appended == AppendEntry(c.models, entry)
         IN  IF _is_success(resps[k])
             THEN CreateEach(m_type, n, resps, k + 1,
                      Controller(appended, Increment(c.counters, m_type),
                                 Append(c.created, [handle |-> NewHandle(appended),
                                                    entry |-> entry]),
                                 Append(c.calls,
                                        Call("create_model", 0, resps[k],
                                             <<Write("rpc", cmd)>>,
                                             RetInt(NewHandle(appended))))),
                      Append(mod_list, NewHandle(appended)))
             ELSE CreateEach(m_type, n, resps, k + 1,
                      [c EXCEPT !.calls = Append(@, Call("create_model", 0, resps[k],
                                                        <<Write("rpc", cmd)>>,
                                                        CreationFailed))],
                      Append(mod_list, CreationFailed.int))

\* self._controller.move_model(model, ...) or rotate_model(model, ...)
ModelCall(op, table, model, resp) ==
    IF op = "move_model_group"
    THEN HandleCall("move_model", table, model, resp,
             _prepare_move_command_model(Item(table, model)[1], Item(table, model)[2],
                                         Location),
             Succeeded(resp))
    ELSE HandleCall("rotate_model", table, model, resp,
             _prepare_rot_command_model(Item(table, model)[1], Item(table, model)[2],
                                        Location),
             Succeeded(resp))

\* what a loop over _mod_list has done so far
Run(success, passed, calls, ret) ==
    [success |-> success, passed |-> passed, calls |-> calls, ret |-> ret]

\* success = True
\* for model in self._mod_list:
\*     success = success and self._controller.move_model(model, new_position)
\* return success
\* Python's "and" does not evaluate its right operand once success is False;
\* an exception of the controller leaves the loop and the method
RECURSIVE ForEachModel(_, _, _, _, _, _)
ForEachModel(op, table, mod_list, resps, k, run) ==
    IF k > Len(mod_list) THEN [run EXCEPT !.ret = RetBool(run.success)]
    ELSE IF ~run.success THEN ForEachModel(op, table, mod_list, resps, k + 1, run)
    ELSE LET c == ModelCall(op, table, mod_list[k], resps[k])
         IN  IF c.ret.kind = "raise"
             THEN Run(FALSE, Append(run.passed, mod_list[k]), Append(run.calls, c), c.ret)
             ELSE ForEachModel(op, table, mod_list, resps, k + 1,
                      Run(c.ret.bool, Append(run.passed, mod_list[k]),
                          Append(run.calls, c), RetNone))

move_model_group(table, mod_list, resps) ==
    ForEachModel("move_model_group", table, mod_list, resps, 1,
                 Run(TRUE, <<>>, <<>>, RetNone))

rotate_model_group(table, mod_list, resps) ==
    ForEachModel("rotate_model_group", table, mod_list, resps, 1,
                 Run(TRUE, <<>>, <<>>, RetNone))

\* return np.array(self._controller.get_model_location(self._mod_list[0]))
get_pos_model_group(table, mod_list, resp) ==
    IF mod_list = <<>> THEN Run(FALSE, <<>>, <<>>, Raise("IndexError"))
    ELSE LET c == HandleCall("get_model_location", table, mod_list[1], resp,
                      _prepare_get_pos_command_model(Item(table, mod_list[1])[1],
                                                     Item(table, mod_list[1])[2]),
                      Decoded(resp, 3))
         IN  Run(c.ret.kind = "value", <<mod_list[1]>>, <<c>>, c.ret)

\* the write events of a sequence of controller calls, in order
RECURSIVE EventsOf(_)
EventsOf(calls) ==
    IF calls = <<>> THEN <<>> ELSE Head(calls).events \o EventsOf(Tail(calls))

\* the group after one of its methods, and the controller's last call
GroupAfter(handed, mod_list, op, resps, run) ==
    /\ group' = [built |-> handed, mod_list |-> mod_list, op |-> op,
                 passed |-> run.passed, resps |-> resps,
                 events |-> EventsOf(run.calls), ret |-> run.ret]
    /\ last' = IF run.calls = <<>> THEN last ELSE run.calls[Len(run.calls)]

\* ModelGroup(controller, model_list, mod_type, start_pos, start_orient, model_path):
\* set the model path, create every model, rotate the group; a constructor
\* that raises hands no group to the caller
ModelGroup__init__(m_type, n, path_resp, creates, rotates) ==
    LET path == PlainCall("set_model_path", path_resp,
                          _prepare_set_path_command_model("dir"), Succeeded(path_resp))
        made == CreateEach(m_type, n, creates, 1,
                           Controller(models, sim_mids_counters, created_mods, <<path>>),
                           <<>>)
        run == rotate_model_group(made.controller.models, made.mod_list, rotates)
    IN  /\ models' = made.controller.models
        /\ sim_mids_counters' = made.controller.counters
        /\ created_mods' = made.controller.created
        /\ GroupAfter(run.ret.kind # "raise", made.mod_list, "__init__", creates \o rotates,
                      [run EXCEPT !.calls = made.controller.calls \o @])
        /\ UNCHANGED <<icub, sim_ids_counters, objects, created_objs, cleared>>

GroupInit ==
    /\ rpc_client = "open"
    /\ \E m_type \in ModelCats, n \in 0..MaxGroup, path_resp \in GroupAnswers :
         \E creates \in GroupAnswerSeqs(n), rotates \in GroupAnswerSeqs(n) :
           /\ Len(models) + n <= MaxModels
           /\ ModelGroup__init__(m_type, n, path_resp, creates, rotates)
    /\ UNCHANGED <<gz_rpc_client, world, life, closes, threads, motor, cam, rpc>>

GroupMethod(op, resps, run) ==
    /\ GroupAfter(TRUE, group.mod_list, op, resps, run)
    /\ UNCHANGED <<icub, gz_rpc_client, ctrl, hist, world, life, closes, threads, motor,
                   cam, rpc>>

GroupMove ==
    /\ group.built
    /\ \E resps \in GroupAnswerSeqs(Len(group.mod_list)) :
         GroupMethod("move_model_group", resps,
                     move_model_group(models, group.mod_list, resps))

GroupRotate ==
    /\ group.built
    /\ \E resps \in GroupAnswerSeqs(Len(group.mod_list)) :
         GroupMethod("rotate_model_group", resps,
                     rotate_model_group(models, group.mod_list, resps))

GroupGetPos ==
    /\ group.built
    /\ \E resp \in {<<>>, <<1, 1, 1>>} :
         GroupMethod("get_pos_model_group", <<resp>>,
                     get_pos_model_group(models, group.mod_list, resp))

\* a model created on the shared controller outside the group
GroupCreateModel ==
    /\ \E m_type \in ModelCats, resp \in GroupAnswers :
         /\ Len(models) + 1 <= MaxModels
         /\ create_model(m_type, resp)
    /\ UNCHANGED <<gz_rpc_client, world, life, ext, cam, rpc>>

InitGroup == Init /\ rpc_client = "open" /\ screen_on

NextGroup ==
    \/ GroupInit
    \/ GroupMove
    \/ GroupRotate
    \/ GroupGetPos
    \/ GroupCreateModel

SpecGroup == InitGroup /\ [][NextGroup]_vars

\* the command the controller sends for the model with the given handle
GroupEnvelope(op, table, model) ==
    HandleEnvelope(IF op = "move_model_group" THEN "move_model" ELSE "rotate_model",
                   table[model + 1])

\* C21: a move_model_group or rotate_model_group that returns has issued one
\* move (rotate) command for every model of the group, in list order, and
\* has returned True exactly when every one of those commands was answered
\* [ok].
C21_WholeGroupMoved ==
    (/\ group.op \in {"move_model_group", "rotate_model_group"}
     /\ group.ret.kind = "bool")
        => /\ Len(group.events) = Len(group.mod_list)
           /\ \A k \in 1..Len(group.mod_list) :
                 (k <= Len(group.events) /\ group.mod_list[k] \in 0..(Len(models) - 1))
                    => group.events[k]
                         = Write("rpc", GroupEnvelope(group.op, models, group.mod_list[k]))
           /\ group.ret.bool = (\A k \in 1..Len(group.resps) : _is_success(group.resps[k]))

\* C28: no handle a group passes to the controller in its constructor, in a
\* move, a rotate or a query is the -1 that a failed create_model returned.
C28_OnlyOwnModels ==
    \A k \in 1..Len(group.passed) : group.passed[k] # CreationFailed.int

----------------------------------------------------------------------------
(* YARP_motor_control: motor_init, and the functions that command a        *)
(* position move and poll checkMotionDone.  The controller decides whether *)
(* it accepts a move and what each poll reports.                           *)

\* parts = {"head": ..., "left_arm": ..., "right_arm": ..., "torso": ..., ...}
parts == {"head", "left_arm", "right_arm", "torso", "right_leg", "left_leg"}
PartNames == parts \cup {"tail"}
Controls == {"position", "velocity", "torque"}
AxesCounts == {3, 6}

\* yarp.PolyDriver(props): the constructor always hands back an object; a
\* driver that could not be created is an object that is not valid
PolyDriver(created) == Some([valid |-> created])

\* driver.viewIPositionControl() and its like: None when the driver is not
\* valid or the device lacks the interface
View(driver, interface, present) ==
    IF driver[1].valid /\ present THEN Some(interface) ELSE None

\* return None, None, None, None
NoneTuple == MotorRet("tuple", <<None, None, None, None>>, "")

\* the local iCtrl after the if/elif of lines 59-62: bound to the interface
\* of the control type, or not bound at all when neither branch is taken
ControlInterface(control, driver, present) ==
    IF control = "position" THEN Some(View(driver, "IPositionControl", present))
    ELSE IF control = "velocity" THEN Some(View(driver, "IVelocityControl", present))
    ELSE None

\* def motor_init(part, control="position", robot_prefix, client_prefix)
motor_init(part, control, created, views, axes) ==
    LET driver == PolyDriver(created)
        iCtrl == ControlInterface(control, driver, views.ctrl)
        iEnc == View(driver, "IEncoders", views.enc)
    IN  IF part \notin parts THEN NoneTuple
        ELSE IF driver = None THEN NoneTuple
        ELSE IF iCtrl = None THEN MotorRet("raise", <<>>, "UnboundLocalError")
        ELSE IF iCtrl[1] = None THEN NoneTuple
        ELSE MotorRet("tuple", <<iCtrl[1], iEnc, Some(axes), driver>>, "")

GotoFns == {"goto_position_block", "goto_position_block_single",
            "goto_position_block_multi"}
BlockingFns == GotoFns \cup {"move_eyes"}

\* slip: every function takes the result of positionMove as it is
MotionAfterMove_Plain(fn, moved) == moved

\* motion = not iPos.positionMove(...) in the three goto functions,
\* motion = iPos_h.positionMove(targ_pos.data()) in move_eyes
MotionAfterMove(fn, moved) == IF fn = "move_eyes" THEN moved ELSE ~moved

MotorFree == motor.pc \in {"idle", "returned"}

MotorUnchanged ==
    UNCHANGED <<icub, gz_rpc_client, ctrl, hist, last, world, life, closes, group, threads,
                cam, rpc>>

MotorInit ==
    /\ MotorFree
    /\ \E part \in PartNames, control \in Controls, created \in BOOLEAN,
          views \in [ctrl : BOOLEAN, enc : BOOLEAN], axes \in AxesCounts :
         motor' = [NoMotor EXCEPT !.fn = "motor_init", !.pc = "returned",
                                  !.args = MotorArgs(part, control, created, views, axes),
                                  !.ret = motor_init(part, control, created, views, axes)]
    /\ MotorUnchanged

\* the caller enters one of the blocking functions
MotorCall ==
    /\ MotorFree
    /\ \E fn \in BlockingFns : motor' = [NoMotor EXCEPT !.fn = fn, !.pc = "move"]
    /\ MotorUnchanged

\* iPos.positionMove(...): the controller accepts the command or rejects it
MotorPositionMove ==
    /\ motor.pc = "move"
    /\ \E moved \in BOOLEAN :
         motor' = [motor EXCEPT !.accepted = moved,
                                !.motion = MotionAfterMove(motor.fn, moved),
                                !.pc = "loop"]
    /\ MotorUnchanged

\* while not motion: motion = iPos.checkMotionDone()
MotorCheckMotionDone(reported) ==
    /\ motor.pc = "loop"
    /\ ~motor.motion
    /\ motor' = [motor EXCEPT !.motion = reported,
                              !.polls = IF @ < MaxPolls THEN @ + 1 ELSE @,
                              !.done = @ \/ reported]
    /\ MotorUnchanged

\* the loop condition fails and the function returns
MotorReturn ==
    /\ motor.pc = "loop"
    /\ motor.motion
    /\ motor' = [motor EXCEPT !.pc = "returned"]
    /\ MotorUnchanged

InitMotor == Init /\ rpc_client = "open" /\ screen_on

NextMotor ==
    \/ MotorInit
    \/ MotorCall
    \/ MotorPositionMove
    \/ MotorCheckMotionDone(FALSE)
    \/ MotorCheckMotionDone(TRUE)
    \/ MotorReturn

SpecMotor == InitMotor /\ [][NextMotor]_vars

\* the caller's thread keeps running, and the controller reports the motion
\* done at some poll
SpecMotorFair ==
    /\ SpecMotor
    /\ WF_vars(MotorPositionMove)
    /\ WF_vars(MotorReturn)
    /\ WF_vars(MotorCheckMotionDone(TRUE))

MotorInitError(args) ==
    \/ args.part \notin parts
    \/ ~args.created
    \/ args.control \notin {"position", "velocity"}
    \/ ~args.views.ctrl

\* C23: motor_init never raises; it returns (None, None, None, None) for an
\* unknown part, a driver that was not created, a control type other than
\* "position" and "velocity" and a missing control interface, and in every
\* other case the controller, the encoder, the joint count and the driver.
C23_NoneOnEveryError ==
    motor.fn = "motor_init"
        => /\ motor.ret.kind # "raise"
           /\ MotorInitError(motor.args) => motor.ret = NoneTuple
           /\ ~MotorInitError(motor.args)
                => /\ motor.ret.kind = "tuple"
                   /\ motor.ret.value[1] # None
                   /\ motor.ret.value[3] = Some(motor.args.axes)
                   /\ motor.ret.value[4] = Some([valid |-> TRUE])

\* C30: a move_eyes whose head position move was accepted returns only
\* after checkMotionDone has reported true at least once after the command.
C30_EyesBlockUntilDone ==
    (motor.fn = "move_eyes" /\ motor.pc = "returned" /\ motor.accepted) => motor.done

----------------------------------------------------------------------------
(* Two threads that call create_object on one iCubSim controller with no   *)
(* lock around the calls.  Each statement of create_object is a step, the  *)
(* augmented assignment of the counter is a load and a store, and the      *)
(* write on the RPC port returns when the answer to that command arrives.  *)

ThreadAnswers == {<<a>> : a \in Atoms}
InCall(t) == threads[t].pc \notin {"idle", "returned"}
Other(t) == CHOOSE u \in ThreadIds : u # t

\* the sequence without its first element equal to x
RECURSIVE RemoveFirst(_, _)
RemoveFirst(seq, x) ==
    IF seq = <<>> THEN <<>>
    ELSE IF Head(seq) = x THEN Tail(seq)
    ELSE <<Head(seq)>> \o RemoveFirst(Tail(seq), x)

\* self._sim_ids_counters[obj] = value, the store half of "+= 1"
StoreCounter(d, k, v) == [x \in DOMAIN d \cup {k} |-> IF x = k THEN v ELSE d[x]]

ThreadUnchanged ==
    UNCHANGED <<icub, gz_rpc_client, sim_mids_counters, models, created_mods, cleared, world,
                life, closes, group, motor, cam, pc, call, answer>>

\* cmd = self._prepare_create_obj_command(...); self._rpc_client.write(cmd, ans)
ThreadWrite(t) ==
    /\ ~InCall(t)
    /\ Len(objects) + Cardinality({u \in ThreadIds : InCall(u)}) < MaxCreated
    /\ \E obj \in ObjCats :
         LET cmd == _prepare_create_obj_command(obj, <<1>>, Location, Color, 1)
             together == InCall(Other(t))
             flying == threads[Other(t)].pc = "sent"
         IN  /\ wire' = Append(wire, cmd)
             /\ threads' =
                   [u \in ThreadIds |->
                      IF u = t
                      THEN [NoThread EXCEPT
                              !.pc = "sent", !.obj = obj, !.cmd = cmd,
                              !.overlapped = threads[t].overlapped \/ together,
                              !.both_in_flight = threads[t].both_in_flight \/ flying]
                      ELSE [threads[u] EXCEPT
                              !.overlapped = @ \/ together,
                              !.both_in_flight = @ \/ flying]]
    /\ UNCHANGED <<sim_ids_counters, objects, created_objs, last>>
    /\ ThreadUnchanged

\* the answer arrives, write returns, and _is_success decides the branch;
\* the failure branch returns -1
ThreadAnswered(t) ==
    /\ threads[t].pc = "sent"
    /\ \E resp \in ThreadAnswers :
         /\ threads' = [threads EXCEPT
                          ![t].resp = resp,
                          ![t].pc = IF _is_success(resp) THEN "read_id" ELSE "returned",
                          ![t].ret = IF _is_success(resp) THEN None
                                     ELSE Some(CreationFailed.int)]
         /\ last' = IF _is_success(resp) THEN last
                    ELSE CreateCall(CreateArgs(threads[t].obj, <<1>>, <<>>), 0, resp,
                                    <<Write("rpc", threads[t].cmd)>>, CreationFailed)
    /\ wire' = RemoveFirst(wire, threads[t].cmd)
    /\ UNCHANGED <<sim_ids_counters, objects, created_objs>>
    /\ ThreadUnchanged

\* obj_sim_id = self._sim_ids_counters[obj] + 1
ThreadReadId(t) ==
    /\ threads[t].pc = "read_id"
    /\ threads' = [threads EXCEPT ![t].sim_id = NextSimId(sim_ids_counters, threads[t].obj),
                                  ![t].pc = "load"]
    /\ UNCHANGED <<sim_ids_counters, objects, created_objs, last, wire>>
    /\ ThreadUnchanged

\* self._sim_ids_counters[obj] += 1, the load
ThreadLoad(t) ==
    /\ threads[t].pc = "load"
    /\ threads' = [threads EXCEPT ![t].loaded = Counter(sim_ids_counters, threads[t].obj),
                                  ![t].pc = "store"]
    /\ UNCHANGED <<sim_ids_counters, objects, created_objs, last, wire>>
    /\ ThreadUnchanged

\* self._sim_ids_counters[obj] += 1, the store
ThreadStore(t) ==
    /\ threads[t].pc = "store"
    /\ sim_ids_counters' = StoreCounter(sim_ids_counters, threads[t].obj,
                                        threads[t].loaded + 1)
    /\ threads' = [threads EXCEPT ![t].pc = "append"]
    /\ UNCHANGED <<objects, created_objs, last, wire>>
    /\ ThreadUnchanged

\* self._objects.append((obj, obj_sim_id)); own is the index the entry got
ThreadAppend(t) ==
    /\ threads[t].pc = "append"
    /\ objects' = AppendEntry(objects, <<threads[t].obj, threads[t].sim_id>>)
    /\ threads' = [threads EXCEPT ![t].own = Some(Len(objects)), ![t].pc = "len"]
    /\ UNCHANGED <<sim_ids_counters, created_objs, last, wire>>
    /\ ThreadUnchanged

\* return len(self._objects) - 1
ThreadReturn(t) ==
    /\ threads[t].pc = "len"
    /\ threads' = [threads EXCEPT ![t].ret = Some(NewHandle(objects)), ![t].pc = "returned"]
    /\ created_objs' = Append(created_objs,
                              [handle |-> NewHandle(objects),
                               entry |-> <<threads[t].obj, threads[t].sim_id>>])
    /\ last' = CreateCall(CreateArgs(threads[t].obj, <<1>>, <<>>), 0, threads[t].resp,
                          <<Write("rpc", threads[t].cmd)>>, RetInt(NewHandle(objects)))
    /\ UNCHANGED <<sim_ids_counters, objects, wire>>
    /\ ThreadUnchanged

InitThreads == Init /\ rpc_client = "open" /\ screen_on

NextThreads ==
    \E t \in ThreadIds :
        \/ ThreadWrite(t)
        \/ ThreadAnswered(t)
        \/ ThreadReadId(t)
        \/ ThreadLoad(t)
        \/ ThreadStore(t)
        \/ ThreadAppend(t)
        \/ ThreadReturn(t)

SpecThreads == InitThreads /\ [][NextThreads]_vars

\* what the two callers can observe going wrong
WrongHandle(t) ==
    /\ threads[t].pc = "returned"
    /\ threads[t].own # None
    /\ threads[t].ret # threads[t].own
SameSimIdTwice ==
    \E j, k \in 1..Len(objects) : j # k /\ objects[j] = objects[k]
Quiet == \A t \in ThreadIds : ~InCall(t)

\* C27: the controller does not serialise its callers: two threads can be
\* in create_object together and two commands can be in flight at once.
\* As long as the calls of the two threads never overlapped, at most one
\* command is in flight, every returned handle indexes the entry its call
\* appended, and between calls counters and table agree; with overlapping
\* calls a wrong handle and a repeated simulator id are both reachable.
C27_AnomaliesOnlyWhenOverlapped ==
    /\ Len(wire) = Cardinality({t \in ThreadIds : threads[t].pc = "sent"})
    /\ (\A t \in ThreadIds : ~threads[t].overlapped)
          => /\ Len(wire) <= 1
             /\ \A t \in ThreadIds : ~WrongHandle(t)
             /\ Quiet => Numbered(objects, sim_ids_counters, ObjCats)

C27_Witness ==
    /\ \E t \in ThreadIds : WrongHandle(t) /\ threads[t].both_in_flight
    /\ SameSimIdTwice
    /\ Quiet

====
